---------------------------- MODULE Spec2Model ----------------------------
(***************************************************************************)
(* A model of SaneAudioRenderer::AudioRenderer (src/src/AudioRenderer.cpp). *)
(*                                                                         *)
(* Two actors share the renderer object: a control actor, whose operations *)
(* (SetClock, SetFormat, NewSegment, Play, Pause, Stop, EndFlush) run from *)
(* beginning to end under the object lock, and a streaming actor, which    *)
(* calls Enqueue and Finish; these take the lock for their processing      *)
(* section, release it, and then run Push (and, for Finish, the drain      *)
(* wait), which retake the lock once per loop iteration and sleep on the   *)
(* flush event in between.  BeginFlush takes no lock.                      *)
(*                                                                         *)
(* The device session, the device manager, the settings, the clocks and    *)
(* the DSP stages are collaborators that are not part of the file; what    *)
(* they answer is drawn nondeterministically.  A failed assert() ends the  *)
(* process: the name of the assertion is recorded in ar.failed and no      *)
(* action is enabled afterwards.                                           *)
(***************************************************************************)
EXTENDS Integers, FiniteSets, Sequences, TLC

\* ---------------------------------------------------------------- bounds

\* Capacity of a device session's buffer, in frames (GetBufferSize).
BufferFrames == 2

\* Largest number of frames in the chunk one Enqueue or Finish hands to Push.
MaxChunk == 3

\* Streaming calls are started only while m_pushedFrames + MaxChunk stays
\* within this number of frames.
MaxPushed == 4

\* Number of calls made to the device manager's CreateDevice.
MaxCreates == 2

\* Largest serial number the settings reach.
MaxSerial == 2

\* ------------------------------------------------------------- constants

\* One second in REFERENCE_TIME units of 100 ns.
OneSecond == 10000000

\* nSamplesPerSec of the session's wave format; the session's audio clock
\* reports its position in frames, so this is also its frequency.
SamplesPerSec == 48000

\* The value `actual` is declared with at the top of every iteration of the
\* drain loop.  TLC's integers are 32 bits wide: the largest of them stands
\* for INT64_MAX, which no converted position reaches either.
INT64_MAX == 2147483647

State_Stopped == "Stopped"
State_Paused  == "Paused"
State_Running == "Running"
States == {State_Stopped, State_Paused, State_Running}

\* m_inputFormat: no format (nullptr) or one of the formats SetFormat is given.
NoFormat == "nullptr"
InputFormats == {"pcm"}

\* The assertion that ended the process, or NoFailure.
NoFailure == "none"

\* ------------------------------------------------------------- variables

VARIABLES
    ar,              \* the AudioRenderer object's fields guarded by the lock
    m_flush,         \* the manual-reset flush event
    lock,            \* owner of the object lock: "free" or "stream"
    pc,              \* where the streaming actor is
    call,            \* the streaming call in progress: "none", "Enqueue", "Finish"
    blockUntilEnd,   \* Finish's argument, as changed by Finish
    chunkFrames,     \* frames in the chunk handed to Push
    doneFrames,      \* Push's doneFrames
    firstIteration,  \* Push's firstIteration
    woken,           \* the flush event was set while the actor slept on it
    flushObserved,   \* a wait of the current call returned "signalled"
    pushResult,      \* what Push returned: "none", "true", "false"
    actual,          \* the drain loop's last position reading, converted
    target,          \* the drain loop's pushed total, converted
    result,          \* what the streaming call returned: "none", "true", "false"
    caught,          \* the call's catch (std::bad_alloc&) block has run
    chunkSession     \* id of the session whose native format the chunk was
                     \* converted to; 0: the chunk was not converted

vars == << ar, m_flush, lock, pc, call, blockUntilEnd, chunkFrames, doneFrames,
           firstIteration, woken, flushObserved, pushResult, actual, target,
           result, caught, chunkSession >>

\* ---------------------------------------------------------- device session

\* m_device == nullptr.
NoDevice == [id |-> 0, padding |-> 0, position |-> 0, started |-> FALSE,
             written |-> 0, settingsSerial |-> 0, exclusive |-> FALSE,
             friendlyName |-> "A", default |-> TRUE]

\* The session the device manager returns from its n-th CreateDevice call:
\* an empty buffer, a clock at 0, not started.  written counts the frames
\* written into the session since its creation or the last EndFlush.
NewDevice(n) == [id |-> n, padding |-> 0, position |-> 0, started |-> FALSE,
                 written |-> 0, settingsSerial |-> 0, exclusive |-> FALSE,
                 friendlyName |-> "A", default |-> TRUE]

HasDevice(r) == r.m_device.id # 0

\* llMulDiv(a, b, c, 0): a * b / c, rounded down.
llMulDiv(a, b, c) == (a * b) \div c

Min(a, b) == IF a < b THEN a ELSE b

\* A failed assert(): the process ends with the object as it was.
Trip(r, name) == [r EXCEPT !.failed = name]

Failed == ar.failed # NoFailure

\* --------------------------------------------- helpers run under the lock

\* ClearDevice leaving m_pushedFrames as it is.
PushedKept(r) == r.m_pushedFrames

\* AudioRenderer::ClearDevice: what it leaves in m_pushedFrames.
PushedAfterClear(r) == 0

\* AudioRenderer::ClearDevice.
ClearDevice(r) ==
    [r EXCEPT !.m_bufferFilled = IF HasDevice(r) THEN FALSE ELSE @,
              !.slaved = IF HasDevice(r) THEN FALSE ELSE @,
              !.m_device = NoDevice,
              !.openSessions = @ \ {r.m_device.id},
              !.m_pushedFrames = PushedAfterClear(r)]

\* AudioRenderer::StartDevice (its assertion holds at both call sites, which
\* are reached with m_state == State_Running only; it is checked all the same).
StartDevice(r) ==
    IF r.m_state # State_Running THEN Trip(r, "StartDevice:state")
    ELSE IF HasDevice(r)
         THEN [r EXCEPT !.slaved = TRUE, !.m_device.started = TRUE]
         ELSE r

\* AudioRenderer::InitializeProcessors: the rate stage is initialised with
\* the clock mode of the moment.
InitializeProcessors(r) ==
    IF r.m_inputFormat = NoFormat THEN Trip(r, "InitializeProcessors:format")
    ELSE IF ~HasDevice(r) THEN Trip(r, "InitializeProcessors:device")
    ELSE [r EXCEPT !.dspRateExternal = r.m_externalClock]

\* AudioRenderer::CreateDevice; ok: the device manager returns a session.
CreateDevice(r, ok) ==
    IF HasDevice(r) THEN Trip(r, "CreateDevice:device")
    ELSE IF r.m_inputFormat = NoFormat THEN Trip(r, "CreateDevice:format")
    ELSE LET n  == r.createCalls + 1
             r1 == [r EXCEPT !.createCalls = n,
                             !.m_device = IF ok THEN NewDevice(n) ELSE NoDevice,
                             !.openSessions = IF ok THEN @ \cup {n} ELSE @]
         IN  IF ~HasDevice(r1) THEN r1
             ELSE LET r2 == InitializeProcessors(r1)
                  IN  IF r2.m_state = State_Running THEN StartDevice(r2) ELSE r2

\* AudioRenderer::CheckDeviceSettings; verdict is what the settings answer:
\* "same" (the serial has not moved, or the output device cannot be read),
\* "compatible" or "incompatible".
CheckDeviceSettings(r, verdict) ==
    IF HasDevice(r) /\ verdict = "incompatible" THEN ClearDevice(r) ELSE r

\* ------------------------------------------------------ control operations

\* AudioRenderer::SetClock; pClock: "null", "own" (the renderer's own clock)
\* or "other".
SetClock(r, pClock) ==
    LET r1 == [r EXCEPT !.m_externalClock = FALSE]
    IN  IF pClock = "other"
        THEN ClearDevice([r1 EXCEPT !.m_externalClock = TRUE])
        ELSE r1

\* AudioRenderer::SetFormat.
SetFormat(r, inputFormat) ==
    ClearDevice([r EXCEPT !.m_inputFormat = inputFormat])

\* AudioRenderer::NewSegment.
NewSegment(r) ==
    IF r.m_inputFormat = NoFormat THEN Trip(r, "NewSegment:format")
    ELSE IF HasDevice(r) THEN InitializeProcessors(r) ELSE r

\* Play without its assertion.
PlayUnchecked(r) == StartDevice([r EXCEPT !.m_state = State_Running])

\* AudioRenderer::Play.
Play(r) ==
    IF r.m_state = State_Running THEN Trip(r, "Play:state")
    ELSE StartDevice([r EXCEPT !.m_state = State_Running])

\* A Pause that leaves the device session running.
PauseDeviceRunning(r) == [r EXCEPT !.m_state = State_Paused, !.slaved = FALSE]

\* AudioRenderer::Pause.
Pause(r) ==
    LET r1 == [r EXCEPT !.m_state = State_Paused]
    IN  IF HasDevice(r1)
        THEN [r1 EXCEPT !.slaved = FALSE, !.m_device.started = FALSE]
        ELSE r1

\* A Stop that keeps the device session.
StopKeepsDevice(r) == [r EXCEPT !.m_state = State_Stopped]

\* AudioRenderer::Stop.
Stop(r) == ClearDevice([r EXCEPT !.m_state = State_Stopped])

\* IAudioClient::Reset as EndFlush calls it: it empties the buffer and sets
\* the clock back to 0 on a stopped session, and fails on a started one.
ResetDevice(d) ==
    IF d.started THEN d ELSE [d EXCEPT !.padding = 0, !.position = 0]

\* EndFlush leaving m_pushedFrames as it is.
PushedKeptByEndFlush(r) == r.m_pushedFrames

\* AudioRenderer::EndFlush: what it leaves in m_pushedFrames.
PushedAfterEndFlush(r) == 0

\* AudioRenderer::EndFlush, the part under the lock that is not m_flush.
EndFlush(r) ==
    IF r.m_state = State_Running THEN Trip(r, "EndFlush:state")
    ELSE LET r1 == IF HasDevice(r)
                   THEN [r EXCEPT !.m_device = [ResetDevice(@) EXCEPT
                                                   !.written = 0],
                                  !.m_bufferFilled = FALSE]
                   ELSE r
         IN  [r1 EXCEPT !.m_pushedFrames = PushedAfterEndFlush(r)]

\* ------------------------------------------------------------------ Init

Init ==
    /\ ar = [m_state |-> State_Stopped,
             m_inputFormat |-> NoFormat,
             m_device |-> NoDevice,
             m_pushedFrames |-> 0,
             m_bufferFilled |-> FALSE,
             m_externalClock |-> FALSE,
             dspRateExternal |-> FALSE,
             slaved |-> FALSE,
             createCalls |-> 0,
             openSessions |-> {},
             m_settings |-> [serial |-> 0, exclusive |-> FALSE,
                             name |-> "", readable |-> TRUE],
             lastCheck |-> "none",
             failed |-> NoFailure]
    /\ m_flush = FALSE
    /\ lock = "free"
    /\ pc = "idle"
    /\ call = "none"
    /\ blockUntilEnd = FALSE
    /\ chunkFrames = 0
    /\ doneFrames = 0
    /\ firstIteration = TRUE
    /\ woken = FALSE
    /\ flushObserved = FALSE
    /\ pushResult = "none"
    /\ actual = INT64_MAX
    /\ target = 0
    /\ result = "none"
    /\ caught = FALSE
    /\ chunkSession = 0

\* ------------------------------------------------- the control actor's calls

\* A control operation runs from taking the lock to releasing it.
ControlEnabled == lock = "free" /\ ~Failed

streamVars == << pc, call, blockUntilEnd, chunkFrames, doneFrames,
                 firstIteration, woken, flushObserved, pushResult, actual,
                 target, result, caught, chunkSession >>

SetClockCall ==
    /\ ControlEnabled
    /\ \E pClock \in {"null", "own", "other"} : ar' = SetClock(ar, pClock)
    /\ UNCHANGED << m_flush, lock, streamVars >>

SetFormatCall ==
    /\ ControlEnabled
    /\ \E inputFormat \in InputFormats : ar' = SetFormat(ar, inputFormat)
    /\ UNCHANGED << m_flush, lock, streamVars >>

NewSegmentCall ==
    /\ ControlEnabled
    /\ ar' = NewSegment(ar)
    /\ UNCHANGED << m_flush, lock, streamVars >>

PlayCall ==
    /\ ControlEnabled
    /\ ar' = Play(ar)
    /\ UNCHANGED << m_flush, lock, streamVars >>

PauseCall ==
    /\ ControlEnabled
    /\ ar' = Pause(ar)
    /\ UNCHANGED << m_flush, lock, streamVars >>

StopCall ==
    /\ ControlEnabled
    /\ ar' = Stop(ar)
    /\ UNCHANGED << m_flush, lock, streamVars >>

\* CheckFormat answers from the format, the settings and the device manager
\* and changes no field; for a PCM format it returns before taking the lock.
CheckFormatCall ==
    /\ ~Failed
    /\ UNCHANGED vars

\* The pcs at which the streaming actor sleeps on the flush event.
Sleeping == pc \in {"push_sleep", "drain_sleep"}

\* AudioRenderer::BeginFlush: sets the event, which releases a sleeper.
BeginFlushCall ==
    /\ ~Failed
    /\ m_flush' = TRUE
    /\ woken' = (woken \/ Sleeping)
    /\ UNCHANGED << caught, chunkSession,
                    ar, lock, pc, call, blockUntilEnd, chunkFrames, doneFrames,
                    firstIteration, flushObserved, pushResult, actual, target,
                    result >>

\* AudioRenderer::EndFlush.
EndFlushCall ==
    /\ ControlEnabled
    /\ ar' = EndFlush(ar)
    /\ m_flush' = IF ar'.failed # NoFailure THEN m_flush ELSE FALSE
    /\ UNCHANGED << lock, streamVars >>

\* The hardware plays one frame of a started session's buffer.
DevicePlays ==
    /\ ~Failed
    /\ HasDevice(ar)
    /\ ar.m_device.started
    /\ ar.m_device.padding > 0
    /\ ar' = [ar EXCEPT !.m_device.padding = @ - 1,
                        !.m_device.position = @ + 1]
    /\ UNCHANGED << m_flush, lock, streamVars >>

\* ------------------------------------------------ the streaming actor: Enqueue

\* A chunk that is left in the working format of the stages.
ChunkFormatUnconverted(r) == 0

\* DspChunk::ToFormat(m_device->dspFormat, chunk) with a session, and no
\* conversion without one: the session whose native format the chunk has.
ChunkFormat(r) == r.m_device.id

\* Chunk sizes the processing of a sample may produce: the frame count is
\* decided by timing correction and the DSP stages (0: an empty chunk).
ChunkSizes(r) == 0 .. Min(MaxChunk, MaxPushed - r.m_pushedFrames)

\* Enqueue is called and takes the lock.
EnqueueBegin ==
    /\ pc = "idle" /\ lock = "free" /\ ~Failed
    /\ HasDevice(ar) \/ ar.createCalls < MaxCreates
    /\ lock' = "stream"
    /\ pc' = "enq_body"
    /\ call' = "Enqueue"
    /\ UNCHANGED << caught, chunkSession,
                    ar, m_flush, blockUntilEnd, chunkFrames, doneFrames,
                    firstIteration, woken, flushObserved, pushResult, actual,
                    target, result >>

\* A device section that creates a session whether or not one exists.
EnqueueDeviceAlways(r, verdict, ok) ==
    CreateDevice(CheckDeviceSettings(r, verdict), ok)

\* Enqueue's device section: CheckDeviceSettings, then CreateDevice when no
\* session exists.
EnqueueDevice(r, verdict, ok) ==
    LET r1 == CheckDeviceSettings(r, verdict)
    IN  IF ~HasDevice(r1) THEN CreateDevice(r1, ok) ELSE r1

\* Enqueue's section under the lock.  verdict, ok: what the settings and the
\* device manager answer; n: the frames of the processed chunk; oom: the
\* processing throws std::bad_alloc.
EnqueueBody ==
    /\ pc = "enq_body" /\ ~Failed
    /\ \E verdict \in {"same", "compatible", "incompatible"}, ok \in BOOLEAN,
          oom \in BOOLEAN :
         /\ verdict = "incompatible" => ar.createCalls < MaxCreates
         /\ IF ar.m_inputFormat = NoFormat
            THEN /\ ar' = Trip(ar, "Enqueue:format")
                 /\ UNCHANGED << lock, pc, chunkFrames, caught,
                                 chunkSession >>
            ELSE IF ar.m_state = State_Stopped
            THEN /\ ar' = Trip(ar, "Enqueue:state")
                 /\ UNCHANGED << lock, pc, chunkFrames, caught,
                                 chunkSession >>
            ELSE LET r2 == EnqueueDevice(ar, verdict, ok)
                 IN  IF r2.failed # NoFailure
                     THEN /\ ar' = r2
                          /\ UNCHANGED << lock, pc, chunkFrames, caught,
                                          chunkSession >>
                     ELSE /\ \E n \in ChunkSizes(r2) :
                               IF oom
                               THEN /\ ar' = ClearDevice(r2)
                                    /\ chunkFrames' = 0
                                    /\ caught' = TRUE
                                    /\ chunkSession' = 0
                               ELSE /\ ar' = r2
                                    /\ chunkFrames' = n
                                    /\ caught' = FALSE
                                    /\ chunkSession' = ChunkFormat(r2)
                          /\ lock' = "free"
                          /\ pc' = "push_entry"
    /\ UNCHANGED << m_flush, call, blockUntilEnd, doneFrames, firstIteration,
                    woken, flushObserved, pushResult, actual, target, result >>

\* ------------------------------------------------- the streaming actor: Finish

\* Finish is called and takes the lock.
FinishBegin ==
    /\ pc = "idle" /\ lock = "free" /\ ~Failed
    /\ \E block \in BOOLEAN : blockUntilEnd' = block
    /\ lock' = "stream"
    /\ pc' = "fin_body"
    /\ call' = "Finish"
    /\ UNCHANGED << caught, chunkSession,
                    ar, m_flush, chunkFrames, doneFrames, firstIteration, woken,
                    flushObserved, pushResult, actual, target, result >>

\* Finish's section under the lock.  n: the frames the stages drain into the
\* chunk; oom: draining throws std::bad_alloc.
FinishBody ==
    /\ pc = "fin_body" /\ ~Failed
    /\ IF ar.m_state = State_Stopped
       THEN /\ ar' = Trip(ar, "Finish:state")
            /\ UNCHANGED << lock, pc, chunkFrames, blockUntilEnd, caught,
                            chunkSession >>
       ELSE /\ blockUntilEnd' = (blockUntilEnd /\ HasDevice(ar))
            /\ \E oom \in BOOLEAN, n \in ChunkSizes(ar) :
                 IF HasDevice(ar) /\ oom
                 THEN /\ chunkFrames' = 0
                      /\ caught' = TRUE
                      /\ chunkSession' = 0
                 ELSE /\ chunkFrames' = IF HasDevice(ar) THEN n ELSE 0
                      /\ caught' = FALSE
                      /\ chunkSession' = ChunkFormat(ar)
            /\ ar' = ar
            /\ lock' = "free"
            /\ pc' = "push_entry"
    /\ UNCHANGED << m_flush, call, doneFrames, firstIteration, woken,
                    flushObserved, pushResult, actual, target, result >>

\* --------------------------------------------------------------------- Push

\* A loop condition that is off by one frame.
PushLoopDoneOffByOne(done, total) == done + 1 >= total

\* Push's loop condition, negated: no frame of the chunk is left to write.
PushLoopDone(done, total) == done >= total

\* A write of everything that remains, whatever the free space.
DoFramesAll(d, done, total) == total - done

\* Push's doFrames: the frames one iteration writes.
DoFrames(d, done, total) == Min(BufferFrames - d.padding, total - done)

\* An iteration that keeps the lock.
LockKept == "stream"

\* The owner of the lock after an iteration's scope is left.
LockAfterIteration == "free"

\* A wait that does not see the event.
NeverSignalled == FALSE

\* m_flush.Wait as it is entered: it returns true at once when the event is
\* set.
Signalled == m_flush

\* A signalled wait taken for a timeout.
FlushResultTrue == "true"

\* What Push and the drain wait return when their wait was signalled.
FlushResult == "false"

\* A handler that swallows the error and keeps the session.
OnHwErrorKeep(r) == r

\* The handler of a hardware error (catch (HRESULT)) in Push and in the drain
\* wait.
OnHwError(r) == ClearDevice(r)

\* Push returns v.
PushReturns(v) ==
    /\ pushResult' = v
    /\ pc' = "push_ret"

\* Push is entered: an empty chunk returns true at once.
PushEntry ==
    /\ pc = "push_entry" /\ ~Failed
    /\ IF chunkFrames = 0
       THEN /\ PushReturns("true")
            /\ UNCHANGED << doneFrames, firstIteration >>
       ELSE /\ doneFrames' = 0
            /\ firstIteration' = TRUE
            /\ pc' = "push_top"
            /\ UNCHANGED pushResult
    /\ UNCHANGED << caught, chunkSession,
                    ar, m_flush, lock, call, blockUntilEnd, chunkFrames, woken,
                    flushObserved, actual, target, result >>

\* The top of an iteration: the loop condition, then, in the second and later
\* iterations, the wait on the flush event, which returns at once when the
\* event is set and puts the actor to sleep otherwise; in the first iteration
\* the lock is taken directly.
PushTop ==
    /\ pc = "push_top" /\ ~Failed
    /\ IF PushLoopDone(doneFrames, chunkFrames)
       THEN /\ PushReturns("true")
            /\ UNCHANGED << lock, firstIteration, woken, flushObserved >>
       ELSE IF firstIteration
       THEN /\ lock = "free"
            /\ lock' = "stream"
            /\ firstIteration' = FALSE
            /\ pc' = "push_body"
            /\ UNCHANGED << woken, flushObserved, pushResult >>
       ELSE IF Signalled
       THEN /\ PushReturns(FlushResult)
            /\ flushObserved' = TRUE
            /\ UNCHANGED << lock, firstIteration, woken >>
       ELSE /\ pc' = "push_sleep"
            /\ woken' = FALSE
            /\ UNCHANGED << lock, firstIteration, flushObserved, pushResult >>
    /\ UNCHANGED << caught, chunkSession,
                    ar, m_flush, call, blockUntilEnd, chunkFrames, doneFrames,
                    actual, target, result >>

\* The sleeper was released by the flush event: Push returns false.
PushWake ==
    /\ pc = "push_sleep" /\ ~Failed
    /\ woken
    /\ PushReturns(FlushResult)
    /\ flushObserved' = TRUE
    /\ UNCHANGED << caught, chunkSession,
                    ar, m_flush, lock, call, blockUntilEnd, chunkFrames,
                    doneFrames, firstIteration, woken, actual, target, result >>

\* The 50 ms of the wait have passed: the lock is taken.
PushTimeout ==
    /\ pc = "push_sleep" /\ ~Failed
    /\ ~woken
    /\ lock = "free"
    /\ lock' = "stream"
    /\ pc' = "push_body"
    /\ UNCHANGED << caught, chunkSession,
                    ar, m_flush, call, blockUntilEnd, chunkFrames, doneFrames,
                    firstIteration, woken, flushObserved, pushResult, actual,
                    target, result >>

\* The iteration's path without a session: the buffer-filled event is set, and
\* the loop is left when the state is Running and the graph clock has passed
\* the end of the last sample (clockPast).
PushNoDevice(r, clockPast) ==
    /\ ar' = [r EXCEPT !.m_bufferFilled = TRUE]
    /\ doneFrames' = doneFrames
    /\ IF r.m_state = State_Running /\ clockPast
       THEN PushReturns("true")
       ELSE pc' = "push_top" /\ UNCHANGED pushResult

\* Push's frame-size assertion.  Each session has the format the device
\* manager negotiated for it; taking the frame sizes of different sessions, and
\* of the stages' working format, as all different, the chunk's frame size is
\* the device's exactly when the chunk was converted for this session.
FrameSizeMatches(d, session) == session = d.id

\* A signal that is raised after every write.
FilledAlways(padding, doFrames) == TRUE

\* The value of the buffer-filled signal after a write of doFrames frames into
\* a buffer that held padding frames.
FilledAfterWrite(padding, doFrames) == padding + doFrames = BufferFrames

\* One iteration under the lock.  hwError: a query or a write of the session
\* fails; clockPast: see PushNoDevice.
PushBody ==
    /\ pc = "push_body" /\ ~Failed
    /\ \E hwError \in BOOLEAN, clockPast \in BOOLEAN :
         IF ar.m_state = State_Stopped
         THEN /\ ar' = Trip(ar, "Push:state")
              /\ UNCHANGED << lock, pc, doneFrames, pushResult >>
         ELSE /\ lock' = LockAfterIteration
              /\ IF HasDevice(ar)
                 THEN IF hwError
                      THEN PushNoDevice(OnHwError(ar), clockPast)
                      ELSE LET doFrames == DoFrames(ar.m_device, doneFrames,
                                                    chunkFrames)
                           IN  /\ pc' = "push_top"
                               /\ UNCHANGED pushResult
                               /\ IF doFrames = 0
                                  THEN UNCHANGED << ar, doneFrames >>
                                  ELSE IF ~FrameSizeMatches(ar.m_device,
                                                            chunkSession)
                                  THEN /\ ar' = Trip(ar, "Push:frameSize")
                                       /\ UNCHANGED doneFrames
                                  ELSE /\ ar' = [ar EXCEPT
                                            !.m_device.padding = @ + doFrames,
                                            !.m_device.written = @ + doFrames,
                                            !.m_bufferFilled =
                                                FilledAfterWrite(
                                                    ar.m_device.padding,
                                                    doFrames),
                                            !.m_pushedFrames = @ + doFrames]
                                       /\ doneFrames' = doneFrames + doFrames
                 ELSE PushNoDevice(ar, clockPast)
    /\ UNCHANGED << caught, chunkSession,
                    m_flush, call, blockUntilEnd, chunkFrames, firstIteration,
                    woken, flushObserved, actual, target, result >>

\* The streaming call returns v to its caller.
CallReturns(v) ==
    /\ result' = v
    /\ pc' = "done"

\* Push has returned to Enqueue or Finish: Enqueue returns its value; Finish
\* returns it too unless it is true and blockUntilEnd is set, and then starts
\* the drain wait, which first unslaves the clock.
AfterPush ==
    /\ pc = "push_ret" /\ ~Failed
    /\ IF call = "Finish" /\ pushResult = "true" /\ blockUntilEnd
       THEN /\ ar' = [ar EXCEPT !.slaved = FALSE]
            /\ pc' = "drain_top"
            /\ actual' = INT64_MAX
            /\ UNCHANGED result
       ELSE /\ CallReturns(pushResult)
            /\ UNCHANGED << ar, actual >>
    /\ UNCHANGED << caught, chunkSession,
                    m_flush, lock, call, blockUntilEnd, chunkFrames, doneFrames,
                    firstIteration, woken, flushObserved, pushResult, target >>

\* ------------------------------------------------- Finish's drain wait (doBlock)

\* `previous` in an iteration of the drain loop: the value of `actual` before
\* the reading, and `actual` is declared, with INT64_MAX, inside the loop.
\* last: the reading of the iteration before.
Previous(last) == INT64_MAX

\* The session's clock position, converted to REFERENCE_TIME.
ActualTime(d) == llMulDiv(d.position, OneSecond, SamplesPerSec)

\* m_pushedFrames, converted to REFERENCE_TIME.
TargetTime(r) == llMulDiv(r.m_pushedFrames, OneSecond, SamplesPerSec)

\* The drain loop's timeout in ms: the estimate of the time left, at least 1.
DrainTimeout(t, a) ==
    LET ms == ((t - a) * 1000) \div OneSecond IN IF ms > 1 THEN ms ELSE 1

\* The top of an iteration of the drain loop: the lock is taken.
DrainTop ==
    /\ pc = "drain_top" /\ ~Failed
    /\ lock = "free"
    /\ lock' = "stream"
    /\ pc' = "drain_body"
    /\ UNCHANGED << caught, chunkSession,
                    ar, m_flush, call, blockUntilEnd, chunkFrames, doneFrames,
                    firstIteration, woken, flushObserved, pushResult, actual,
                    target, result >>

\* One iteration of the drain loop under the lock.  hwError: the query of the
\* session's clock fails.
DrainBody ==
    /\ pc = "drain_body" /\ ~Failed
    /\ lock' = LockAfterIteration
    /\ \E hwError \in BOOLEAN :
         IF ~HasDevice(ar)
         THEN /\ CallReturns("true")
              /\ UNCHANGED << ar, actual, target >>
         ELSE IF hwError
         THEN /\ ar' = OnHwError(ar)
              /\ CallReturns("true")
              /\ UNCHANGED << actual, target >>
         ELSE LET previous == Previous(actual)
                  a == ActualTime(ar.m_device)
                  t == TargetTime(ar)
              IN  /\ actual' = a
                  /\ target' = t
                  /\ ar' = ar
                  /\ IF a = t \/ (a = previous /\ ar.m_state = State_Running)
                     THEN CallReturns("true")
                     ELSE pc' = "drain_wait" /\ UNCHANGED result
    /\ UNCHANGED << caught, chunkSession,
                    m_flush, call, blockUntilEnd, chunkFrames, doneFrames,
                    firstIteration, woken, flushObserved, pushResult >>

\* The wait on the flush event after an iteration: it returns at once when
\* the event is set, and Finish returns false; otherwise the actor sleeps.
DrainWait ==
    /\ pc = "drain_wait" /\ ~Failed
    /\ DrainTimeout(target, actual) >= 1   \* a wait of at least 1 ms
    /\ IF Signalled
       THEN /\ CallReturns(FlushResult)
            /\ flushObserved' = TRUE
            /\ UNCHANGED woken
       ELSE /\ pc' = "drain_sleep"
            /\ woken' = FALSE
            /\ UNCHANGED << flushObserved, result >>
    /\ UNCHANGED << caught, chunkSession,
                    ar, m_flush, lock, call, blockUntilEnd, chunkFrames,
                    doneFrames, firstIteration, pushResult, actual, target >>

\* The sleeper was released by the flush event: Finish returns false.
DrainWake ==
    /\ pc = "drain_sleep" /\ ~Failed
    /\ woken
    /\ CallReturns(FlushResult)
    /\ flushObserved' = TRUE
    /\ UNCHANGED << caught, chunkSession,
                    ar, m_flush, lock, call, blockUntilEnd, chunkFrames,
                    doneFrames, firstIteration, woken, pushResult, actual,
                    target >>

\* The timeout has passed: the next iteration.
DrainTimesOut ==
    /\ pc = "drain_sleep" /\ ~Failed
    /\ ~woken
    /\ pc' = "drain_top"
    /\ UNCHANGED << caught, chunkSession,
                    ar, m_flush, lock, call, blockUntilEnd, chunkFrames,
                    doneFrames, firstIteration, woken, flushObserved, pushResult,
                    actual, target, result >>

\* The caller has the result; the streaming actor is ready for its next call.
StreamReturn ==
    /\ pc = "done" /\ ~Failed
    /\ pc' = "idle"
    /\ call' = "none"
    /\ blockUntilEnd' = FALSE
    /\ chunkFrames' = 0
    /\ doneFrames' = 0
    /\ firstIteration' = TRUE
    /\ woken' = FALSE
    /\ flushObserved' = FALSE
    /\ pushResult' = "none"
    /\ actual' = INT64_MAX
    /\ target' = 0
    /\ result' = "none"
    /\ caught' = FALSE
    /\ chunkSession' = 0
    /\ UNCHANGED << ar, m_flush, lock >>

\* ----------------------------------------------------------- specification

\* The steps of a streaming call in progress.
StreamStep ==
    \/ EnqueueBody \/ FinishBody
    \/ PushEntry \/ PushTop \/ PushWake \/ PushTimeout \/ PushBody \/ AfterPush
    \/ DrainTop \/ DrainBody \/ DrainWait \/ DrainWake \/ DrainTimesOut

Next ==
    \/ SetClockCall \/ SetFormatCall \/ NewSegmentCall
    \/ PlayCall \/ PauseCall \/ StopCall \/ CheckFormatCall
    \/ BeginFlushCall \/ EndFlushCall
    \/ DevicePlays
    \/ EnqueueBegin \/ FinishBegin
    \/ StreamStep
    \/ StreamReturn

Spec == Init /\ [][Next]_vars

\* ------------------------------------------- the settings and the session

\* Names of output devices; the settings name one of them or none ("").
DeviceNames == {"A", "B"}

\* The user changes the output-device settings: the serial moves on, and
\* GetOuputDevice answers (readable) with a name and an exclusivity or fails.
SettingsChange ==
    /\ ~Failed
    /\ ar.m_settings.serial < MaxSerial
    /\ \E exclusive \in BOOLEAN, name \in DeviceNames \cup {""},
          readable \in BOOLEAN :
         ar' = [ar EXCEPT !.m_settings =
                   [serial |-> @.serial + 1, exclusive |-> exclusive,
                    name |-> name, readable |-> readable]]
    /\ UNCHANGED << m_flush, lock, streamVars >>

\* A verdict that does not look at the session's default flag.
SettingsVerdictIgnoresDefault(r) ==
    LET d == r.m_device
        s == r.m_settings
    IN  IF ~HasDevice(r) \/ d.settingsSerial = s.serial \/ ~s.readable
        THEN "same"
        ELSE IF \/ d.exclusive # s.exclusive
                \/ (s.name # "" /\ s.name # d.friendlyName)
             THEN "incompatible"
             ELSE "compatible"

\* The tests of CheckDeviceSettings on the session of r and the live
\* settings: the verdict CheckDeviceSettings(r, verdict) takes.
SettingsVerdict(r) ==
    LET d == r.m_device
        s == r.m_settings
    IN  IF ~HasDevice(r) \/ d.settingsSerial = s.serial \/ ~s.readable
        THEN "same"
        ELSE IF \/ d.exclusive # s.exclusive
                \/ (s.name # "" /\ s.name # d.friendlyName)
                \/ (s.name = "" /\ ~d.default)
             THEN "incompatible"
             ELSE "compatible"

\* AudioRenderer::CheckDeviceSettings with the settings and the session's
\* recorded serial, exclusivity and identity.  lastCheck records the verdict.
CheckDeviceSettingsLive(r) ==
    LET verdict == SettingsVerdict(r)
        r1 == [CheckDeviceSettings(r, verdict) EXCEPT !.lastCheck = verdict]
    IN  IF verdict = "compatible"
        THEN [r1 EXCEPT !.m_device.settingsSerial = r.m_settings.serial]
        ELSE r1

\* The session the device manager has opened, with the serial, exclusivity
\* and identity it recorded in it.
OpenedWith(r, serial, exclusive, name, default) ==
    IF ~HasDevice(r) THEN r
    ELSE [r EXCEPT !.m_device.settingsSerial = serial,
                   !.m_device.exclusive = exclusive,
                   !.m_device.friendlyName = name,
                   !.m_device.default = default]

\* Enqueue's section under the lock, with the settings read from m_settings,
\* for a sample whose processing leaves an empty chunk.  ok and the opened
\* session's attributes: what the device manager answers; oom: as in
\* EnqueueBody.
EnqueueBodyLive ==
    /\ pc = "enq_body" /\ ~Failed
    /\ \E ok \in BOOLEAN, oom \in BOOLEAN, serial \in 0 .. MaxSerial,
          exclusive \in BOOLEAN, name \in DeviceNames, default \in BOOLEAN :
         /\ SettingsVerdict(ar) = "incompatible" => ar.createCalls < MaxCreates
         /\ IF ar.m_inputFormat = NoFormat
            THEN /\ ar' = Trip(ar, "Enqueue:format")
                 /\ UNCHANGED << lock, pc, chunkFrames, caught,
                                 chunkSession >>
            ELSE IF ar.m_state = State_Stopped
            THEN /\ ar' = Trip(ar, "Enqueue:state")
                 /\ UNCHANGED << lock, pc, chunkFrames, caught,
                                 chunkSession >>
            ELSE LET r1 == CheckDeviceSettingsLive(ar)
                     r2 == IF ~HasDevice(r1)
                           THEN OpenedWith(CreateDevice(r1, ok), serial,
                                           exclusive, name, default)
                           ELSE r1
                 IN  IF r2.failed # NoFailure
                     THEN /\ ar' = r2
                          /\ UNCHANGED << lock, pc, chunkFrames, caught,
                                          chunkSession >>
                     ELSE /\ IF oom
                             THEN /\ ar' = ClearDevice(r2)
                                  /\ caught' = TRUE
                                  /\ chunkSession' = 0
                             ELSE /\ ar' = r2
                                  /\ caught' = FALSE
                                  /\ chunkSession' = ChunkFormat(r2)
                          /\ chunkFrames' = 0
                          /\ lock' = "free"
                          /\ pc' = "push_entry"
    /\ UNCHANGED << m_flush, call, blockUntilEnd, doneFrames, firstIteration,
                    woken, flushObserved, pushResult, actual, target, result >>

SettingsNext ==
    \/ SettingsChange
    \/ SetFormatCall \/ PlayCall \/ PauseCall \/ StopCall
    \/ EnqueueBegin \/ EnqueueBodyLive
    \/ PushEntry \/ AfterPush
    \/ StreamReturn

\* The renderer with the settings and the streaming actor's Enqueue calls.
SettingsSpec == Init /\ [][SettingsNext]_vars

\* The streaming thread is scheduled fairly, and the lock is granted to it
\* when it is free: a step of a call in progress is eventually taken.
FairSpec == Spec /\ WF_vars(StreamStep)

\* ------------------------------------------------------------------ claims

\* The pcs inside Push.
InPush == pc \in {"push_entry", "push_top", "push_sleep", "push_body"}

\* A streaming call is in progress.
InCall == pc \notin {"idle", "done"}

\* C1: for a non-empty chunk, Push returns false only after a backpressure
\* wait before a second or later iteration observed the flush event, and
\* returns true only when every frame of the chunk was written to the session
\* or no session exists; never true with frames left and a session at hand.
C1_PushResult ==
    (pc = "push_ret" /\ chunkFrames > 0) =>
        /\ pushResult \in {"true", "false"}
        /\ pushResult = "false" => flushObserved /\ ~firstIteration
        /\ pushResult = "true" => doneFrames = chunkFrames \/ ~HasDevice(ar)
        /\ doneFrames <= chunkFrames

\* Push has returned true for a chunk larger than the device buffer, all of
\* it written to a session that still exists.
C1_Witness ==
    /\ pc = "push_ret" /\ pushResult = "true"
    /\ chunkFrames > BufferFrames /\ doneFrames = chunkFrames
    /\ HasDevice(ar)

\* C2 as stated: the state changes only along Stopped->Running,
\* Running->Paused, Paused->Running and any->Stopped.
C2_AsStated ==
    [][ar'.m_state # ar.m_state =>
          \/ ar'.m_state = State_Stopped
          \/ << ar.m_state, ar'.m_state >> \in
                 { << State_Stopped, State_Running >>,
                   << State_Running, State_Paused >>,
                   << State_Paused, State_Running >> }]_vars

\* C2, amended: the state changes only by Play (Stopped or Paused to
\* Running), by Pause (any state to Paused, with no assertion) and by Stop
\* (any state to Stopped); Play while Running trips its assertion and leaves
\* the state as it is; Pause and Stop never trip an assertion.
C2_Transitions ==
    [][/\ ar'.m_state # ar.m_state =>
            \/ PlayCall /\ ar.m_state # State_Running
                        /\ ar'.m_state = State_Running
            \/ PauseCall /\ ar'.m_state = State_Paused
            \/ StopCall /\ ar'.m_state = State_Stopped
       /\ PlayCall /\ ar.m_state = State_Running =>
            ar' = Trip(ar, "Play:state")
       /\ PlayCall /\ ar.m_state # State_Running =>
            ar'.m_state = State_Running /\ ar'.failed = NoFailure
       /\ PauseCall => ar'.m_state = State_Paused /\ ar'.failed = NoFailure
       /\ StopCall => ar'.m_state = State_Stopped /\ ar'.failed = NoFailure
      ]_vars

\* Play was called while Running and tripped its assertion, the state left
\* Running.
C2_Witness == ar.failed = "Play:state" /\ ar.m_state = State_Running

\* C3: at most one session is open at any time, a session is created only by
\* Enqueue's section under the lock, with an input format set and no session
\* left after CheckDeviceSettings, and CreateDevice's two assertions hold.
C3_SingleSession ==
    [][/\ ar'.failed \notin {"CreateDevice:device", "CreateDevice:format"}
       /\ Cardinality(ar'.openSessions) <= 1
       /\ ar'.openSessions = IF HasDevice(ar') THEN {ar'.m_device.id} ELSE {}
       /\ ar'.createCalls # ar.createCalls =>
            /\ pc = "enq_body" /\ call = "Enqueue"
            /\ ar.m_inputFormat # NoFormat
            /\ ar'.createCalls = ar.createCalls + 1
            /\ ar'.m_device.id \in {0, ar'.createCalls}
       /\ HasDevice(ar') /\ ar'.m_device.id # ar.m_device.id =>
            ar'.createCalls # ar.createCalls
      ]_vars

\* A second session exists, created by an Enqueue after the first was cleared.
C3_Witness ==
    /\ HasDevice(ar) /\ ar.m_device.id = 2
    /\ call = "Enqueue" /\ pc = "push_entry"

\* C4: m_pushedFrames is the number of frames written into the current
\* session since the later of its creation and the last EndFlush, it is 0
\* when no session exists, and it decreases only by EndFlush or when the
\* session is cleared.
C4_PushedFrames ==
    [][/\ ~HasDevice(ar') => ar'.m_pushedFrames = 0
       /\ HasDevice(ar') => ar'.m_pushedFrames = ar'.m_device.written
       /\ ar'.m_pushedFrames < ar.m_pushedFrames =>
            EndFlushCall \/ (HasDevice(ar) /\ ar'.m_device.id # ar.m_device.id)
      ]_vars

\* SetFormat, Play and one Enqueue of MaxChunk frames into the first session,
\* with no error and no flush: Enqueue has returned true and m_pushedFrames
\* is MaxChunk.
C4_Witness ==
    /\ pc = "done" /\ call = "Enqueue" /\ result = "true"
    /\ chunkFrames = MaxChunk /\ ar.m_pushedFrames = MaxChunk
    /\ ar.m_state = State_Running
    /\ ar.createCalls = 1 /\ HasDevice(ar) /\ ~m_flush

\* C5: EndFlush while Paused or Stopped leaves the flush event cleared and
\* m_pushedFrames 0 and, with a session, the session's buffer empty and the
\* buffer-filled event cleared; it changes neither the state nor the
\* session's identity; while Running it trips its assertion and changes
\* nothing else.  m_pushedFrames counts the frames the session took since.
C5_EndFlush ==
    [][/\ EndFlushCall /\ ar.m_state # State_Running =>
            /\ ~m_flush'
            /\ ar'.m_pushedFrames = 0
            /\ ar'.m_state = ar.m_state
            /\ ar'.failed = NoFailure
            /\ ar'.m_device.id = ar.m_device.id
            /\ HasDevice(ar) =>
                 /\ ar'.m_device.padding = 0
                 /\ ~ar'.m_bufferFilled
       /\ EndFlushCall /\ ar.m_state = State_Running =>
            /\ ar' = Trip(ar, "EndFlush:state")
            /\ m_flush' = m_flush
       /\ HasDevice(ar') =>
            ar'.m_pushedFrames = ar'.m_device.padding + ar'.m_device.position
      ]_vars

\* EndFlush has acted between two iterations of a Push while Paused: frames
\* of the chunk were written into the session, which is still there, and
\* m_pushedFrames is 0 with the flush event cleared.
C5_Witness ==
    /\ pc = "push_top" /\ doneFrames > 0
    /\ HasDevice(ar) /\ ar.m_state = State_Paused
    /\ ar.m_pushedFrames = 0 /\ ar.m_device.padding = 0 /\ ~m_flush

\* C6: a BeginFlush while Finish sleeps in Push's backpressure wait or in
\* its drain wait releases the sleeper, whose wait then returns "signalled"
\* and makes Finish return false; Finish never returns true after one of its
\* waits observed the flush event.
C6_FlushEndsFinish ==
    [][/\ BeginFlushCall /\ Sleeping => woken'
       /\ call = "Finish" /\ Sleeping /\ woken /\ pc' # pc =>
            /\ flushObserved'
            /\ \/ pc = "push_sleep" /\ pc' = "push_ret" /\ pushResult' = "false"
               \/ pc = "drain_sleep" /\ pc' = "done" /\ result' = "false"
       /\ call = "Finish" /\ pc = "push_ret" /\ pushResult = "false"
                          /\ pc' # pc =>
            pc' = "done" /\ result' = "false"
       /\ call' = "Finish" /\ pc' = "done" /\ flushObserved' =>
            result' = "false"
      ]_vars

\* Finish(blockUntilEnd = true) has returned false from its drain wait: Push
\* had returned true, and the wait observed the flush event.
C6_Witness ==
    /\ call = "Finish" /\ pc = "done" /\ result = "false"
    /\ blockUntilEnd /\ pushResult = "true" /\ flushObserved

\* C7 as stated: an iteration of the drain loop that reads the session's
\* clock returns true when the position equals the pushed total (both
\* converted), and also when the reading equals that of the iteration before
\* while the state is Running.
C7_AsStated ==
    [][pc = "drain_body" /\ pc' # pc /\ HasDevice(ar') =>
          /\ ActualTime(ar.m_device) = TargetTime(ar) =>
               pc' = "done" /\ result' = "true"
          /\ ( /\ actual # INT64_MAX
               /\ ActualTime(ar.m_device) = actual
               /\ ar.m_state = State_Running ) =>
               pc' = "done" /\ result' = "true"
      ]_vars

\* C8: once the flush event is set and stays set, every streaming call in
\* progress returns (unless a failed assertion has ended the process).
C8_FlushTerminates ==
    (InCall /\ m_flush) ~> (~InCall \/ ~m_flush \/ Failed)

\* The flush event is set while Push sleeps in its backpressure wait, Paused,
\* with the device buffer full.
C8_Witness ==
    /\ pc = "push_sleep" /\ woken /\ m_flush
    /\ ar.m_state = State_Paused
    /\ HasDevice(ar) /\ ar.m_device.padding = BufferFrames

\* The streaming actor is in Push's backpressure wait or in Finish's drain
\* wait.
InWait == pc \in {"push_sleep", "drain_wait", "drain_sleep"}

\* C9: whenever the streaming actor is in Push's backpressure wait or in
\* Finish's drain wait, the lock is free, and Stop, Pause, SetFormat and
\* EndFlush can run.
C9_WaitsWithoutLock ==
    InWait =>
        /\ lock = "free"
        /\ ~Failed => /\ ENABLED StopCall
                      /\ ENABLED PauseCall
                      /\ ENABLED SetFormatCall
                      /\ ENABLED EndFlushCall

\* Stop has run to its end while Finish was in its drain wait: the wait was
\* entered with a session, and the state is Stopped with no session.
C9_Witness ==
    /\ pc = "drain_sleep" /\ lock = "free"
    /\ ar.m_state = State_Stopped /\ ~HasDevice(ar)

\* C10: an iteration of Push that starts with a session either writes frames
\* into it, or finds its buffer full and changes nothing, or (a hardware
\* error) ends with the session cleared, m_pushedFrames 0 and the
\* buffer-filled event set, and then goes on to the next iteration or makes
\* Push return true; without a session Push writes no frame and no session
\* appears before Push returns; and an Enqueue that finds no session calls
\* CreateDevice before it hands its chunk to Push.
C10_HwError ==
    [][/\ pc = "push_body" /\ HasDevice(ar) /\ ~HasDevice(ar') =>
            /\ ar'.failed = NoFailure
            /\ ar'.m_pushedFrames = 0
            /\ ar'.m_bufferFilled
            /\ doneFrames' = doneFrames
            /\ \/ pc' = "push_top" /\ pushResult' = "none"
               \/ pc' = "push_ret" /\ pushResult' = "true"
       /\ pc = "push_body" /\ pc' # pc /\ ~Failed' =>
            \/ /\ HasDevice(ar) /\ ar'.m_device.id = ar.m_device.id
                /\ pc' = "push_top"
                /\ \/ doneFrames' > doneFrames
                   \/ doneFrames' = doneFrames /\ ar' = ar
            \/ ~HasDevice(ar') /\ ar'.m_bufferFilled /\ doneFrames' = doneFrames
       /\ InPush /\ ~HasDevice(ar) =>
            ~HasDevice(ar') /\ (pc' # "idle" => doneFrames' = doneFrames)
       /\ pc = "enq_body" /\ pc' = "push_entry" /\ ~HasDevice(ar) =>
            ar'.createCalls = ar.createCalls + 1
      ]_vars

\* The session was lost in the second or a later iteration of a Push that had
\* written part of its chunk, and Push has returned true.
C10_Witness ==
    /\ pc = "push_ret" /\ pushResult = "true"
    /\ 0 < doneFrames /\ doneFrames < chunkFrames
    /\ ~HasDevice(ar) /\ ar.m_bufferFilled /\ ar.m_pushedFrames = 0

\* C11: every SetClock call that changes the clock mode, in either direction,
\* clears the device session, and whenever a session exists its rate-correction
\* stage was last initialised with the clock mode that is active.
C11_AsStated ==
    [][ /\ (SetClockCall /\ ar'.m_externalClock # ar.m_externalClock)
            => ~HasDevice(ar')
        /\ HasDevice(ar') => ar'.dspRateExternal = ar'.m_externalClock ]_vars

\* C12: whenever the state is Stopped there is no device session and
\* pushedFrames is 0, and no step taken while Stopped asks the device manager
\* for a session.
C12_StoppedHasNoSession ==
    [][ /\ ar'.m_state = State_Stopped
            => ~HasDevice(ar') /\ ar'.m_pushedFrames = 0
        /\ ar.m_state = State_Stopped
            => ar'.createCalls = ar.createCalls /\ ~HasDevice(ar') ]_vars

\* Stop arrived while Push, having written part of its chunk, was waiting.
C12_Witness ==
    /\ ar.m_state = State_Stopped
    /\ pc = "push_sleep" /\ doneFrames > 0
    /\ ar.createCalls > 0 /\ ~HasDevice(ar) /\ ar.m_pushedFrames = 0

\* C15: with Enqueue and Finish started only while the state is not Stopped
\* (a call started while Stopped ends at its own assertion), and Stop free to
\* run at any moment, the state assertion of Push's loop never fails.
C15_AsStated == ar.failed # "Push:state"

\* C19: whenever a session exists, the device is started exactly when the
\* state is Running, so EndFlush only resets a device that is stopped.
C19_StartedIffRunning ==
    /\ HasDevice(ar) => (ar.m_device.started <=> ar.m_state = State_Running)
    /\ (ENABLED EndFlushCall /\ HasDevice(ar) /\ ar.m_state # State_Running)
         => ~ar.m_device.started

\* A session that was filled while Running and then paused: it is stopped.
C19_Witness ==
    /\ HasDevice(ar) /\ ar.m_state = State_Paused
    /\ ~ar.m_device.started
    /\ ar.m_device.position > 0 /\ ar.m_device.padding > 0

\* C20: the clock is slaved exactly while a session exists and the state is
\* Running, so the clock is slaved whenever Enqueue applies a drift
\* correction (session exists, state Running).
C20_AsStated ==
    ar.slaved <=> (HasDevice(ar) /\ ar.m_state = State_Running)

\* C16: every write is exactly min(capacity - padding, remaining) frames, the
\* fill of the buffer never exceeds its capacity, an iteration that finds the
\* buffer full writes nothing, and the frames written are taken from the chunk
\* at the offset reached so far, so they form a prefix of it.
C16_WriteSize ==
    [][ /\ HasDevice(ar') => ar'.m_device.padding <= BufferFrames
        /\ doneFrames' <= chunkFrames'
        /\ (PushBody /\ HasDevice(ar) /\ HasDevice(ar')
                /\ ar'.failed = NoFailure)
            => LET free == BufferFrames - ar.m_device.padding
                   remaining == chunkFrames - doneFrames
                   doFrames == doneFrames' - doneFrames
               IN  /\ doFrames >= 0
                   /\ doFrames <= free /\ doFrames <= remaining
                   /\ doFrames = free \/ doFrames = remaining
                   /\ ar'.m_device.padding = ar.m_device.padding + doFrames
                   /\ ar'.m_device.written = ar.m_device.written + doFrames
                   /\ free = 0 => ar' = ar
        /\ pc' # "idle" => doneFrames' >= doneFrames ]_vars

\* A write has filled the buffer with part of the chunk, and the next
\* iteration is about to find the buffer full.
C16_Witness ==
    /\ pc = "push_body" /\ HasDevice(ar)
    /\ ar.m_device.padding = BufferFrames
    /\ 0 < doneFrames /\ doneFrames < chunkFrames

\* C17: after every write the buffer-filled signal is raised exactly when
\* padding plus the frames written equals the capacity and cleared otherwise,
\* and every iteration that finds no session raises it.
C17_BufferFilled ==
    [][ (PushBody /\ ar'.failed = NoFailure)
        => /\ (HasDevice(ar') /\ doneFrames' > doneFrames)
               => (ar'.m_bufferFilled
                   <=> ar.m_device.padding + (doneFrames' - doneFrames)
                         = BufferFrames)
           /\ ~HasDevice(ar) => ar'.m_bufferFilled ]_vars

\* A write that ended the chunk without filling the buffer cleared the signal
\* after an earlier write of the same call had raised it.
C17_Witness ==
    /\ pc = "push_top" /\ HasDevice(ar)
    /\ doneFrames = chunkFrames /\ chunkFrames > BufferFrames
    /\ ar.m_device.padding < BufferFrames
    /\ ~ar.m_bufferFilled

\* C13: when the processing runs out of memory, in Enqueue and in Finish
\* alike, the chunk is replaced by an empty one, the session is cleared, the
\* state is unchanged and the call goes on to Push, which returns at once.
C13_AsStated ==
    [][ (caught' /\ ~caught)
        => /\ chunkFrames' = 0
           /\ ~HasDevice(ar')
           /\ ar'.m_state = ar.m_state
           /\ pc' = "push_entry" ]_vars

C18_SettingsCheck ==
    [][ (pc = "enq_body" /\ pc' = "push_entry" /\ HasDevice(ar) /\ ~caught')
        => LET d == ar.m_device
               s == ar.m_settings
               match == /\ d.exclusive = s.exclusive
                        /\ IF s.name # "" THEN s.name = d.friendlyName
                                          ELSE d.default
           IN  /\ (d.settingsSerial # s.serial /\ s.readable /\ match)
                   => ar'.m_device = [d EXCEPT !.settingsSerial = s.serial]
               /\ (d.settingsSerial # s.serial /\ s.readable /\ ~match)
                   => /\ d.id \notin ar'.openSessions
                      /\ ar'.createCalls = ar.createCalls + 1
                      /\ ar'.m_device.id \in {0, ar'.createCalls}
               /\ d.settingsSerial = s.serial
                   => ar'.m_device = d /\ ar'.createCalls = ar.createCalls
      ]_vars

\* Enqueue has found the first session compatible with changed settings, kept
\* it and recorded the live serial in it.
C18_Witness ==
    /\ pc = "push_entry" /\ ar.lastCheck = "compatible"
    /\ HasDevice(ar) /\ ar.m_device.id = 1
    /\ ar.m_device.settingsSerial = ar.m_settings.serial
    /\ ar.m_settings.serial > 0

=============================================================================
